---- MODULE Spec2Model ----
(***************************************************************************)
(* Model of the PLC dashboard server: the SqlStorage repository            *)
(* (src/server/storage.ts) and the HTTP handlers that drive it             *)
(* (src/server/routes.ts).                                                 *)
(*                                                                         *)
(* The repository runs on the synchronous better-sqlite3 driver: every     *)
(* `await` inside a storage method resolves in the microtask queue, while  *)
(* other HTTP requests are dispatched as macrotasks.  A storage method is  *)
(* therefore one atomic step.  The only await of a handler that lets other *)
(* requests in is the `fetch` to the external gateway, so the connect and  *)
(* check-status handlers are two steps: up to the fetch, and from the      *)
(* gateway's reply on.                                                     *)
(***************************************************************************)
EXTENDS Integers, Sequences, FiniteSets, TLC

VARIABLES
    plcs,       \* table plcs: a set of rows, primary key id
    variables,  \* table variables: the rows in insertion order
    now,        \* the wall clock read by `new Date()`
    nextId,     \* the next identifier randomUUID() hands out for a PLC
    inflight,   \* handlers waiting for the gateway's reply to their fetch
    last        \* the last completed call: its input, outcome and response

vars == <<plcs, variables, now, nextId, inflight, last>>

(***************************************************************************)
(* Bounds of the model.                                                    *)
(***************************************************************************)
MaxPLCs == 2        \* identifiers handed out: at most this many creates succeed
MaxTime == 2        \* the clock ticks up to this value
MaxMappings == 2    \* address mappings per uploaded PLC block
MaxPolls == 2       \* bulk status requests waiting for the gateway at a time

(***************************************************************************)
(* JavaScript values.                                                      *)
(***************************************************************************)
\* `undefined` for a string-valued property that the input does not carry
Undefined == "<undefined>"
\* NULL / undefined for the INTEGER column plc_no (storage.ts:89)
NullNo == -1

\* `s || d` on a string or undefined value: "" and undefined are falsy
OrString(s, d) == IF s = Undefined \/ s = "" THEN d ELSE s

\* plc_no taken as it is, without the `|| 1`
OrOne_NoDefault(n) == n
\* `plc_no || 1`: null, undefined and 0 are falsy
OrOne(n) == IF n = NullNo \/ n = 0 THEN 1 ELSE n

\* `!plc.plc_no` after getPLCById mapped the column with `plc_no || undefined`
NoPlcNo(n) == n = NullNo \/ n = 0

\* bitKey.padStart(2, '0')
PadStart2(s) == IF Len(s) >= 2 THEN s ELSE IF Len(s) = 1 THEN "0" \o s ELSE "00"

RECURSIVE Flatten(_)
\* the concatenation of a sequence of sequences
Flatten(ss) == IF ss = <<>> THEN <<>> ELSE Head(ss) \o Flatten(Tail(ss))

(***************************************************************************)
(* Rows.                                                                   *)
(***************************************************************************)
\* a row of table variables (the generated id is left out: rows are told
\* apart by their position)
VarRow(plcNo, nodeName, description, regAddress, dataType) ==
    [plc_no |-> plcNo, node_name |-> nodeName, description |-> description,
     reg_address |-> regAddress, data_type |-> dataType]

\* the row createPLC / createPLCFromRaw insert into table plcs
NewPLCRow(id, config, t) ==
    [id |-> id, plc_name |-> config.plc_name, plc_no |-> config.plc_no,
     plc_ip |-> config.plc_ip, opcua_url |-> config.opcua_url,
     plc_status |-> "disconnected", opcua_status |-> "disconnected",
     last_checked |-> t, created_at |-> t]

\* select().from(plcs).where(eq(plcs.plc_ip, ip)).limit(1), as the set of
\* rows the query can return
ExistingPLC_NoCheck(ip) == {}
ExistingPLC(ip) == {r \in plcs : r.plc_ip = ip}

\* select().from(plcs).where(eq(plcs.id, id)).limit(1)
PLCRowsById(id) == {r \in plcs : r.id = id}

\* the row of an id known to be stored
RowOf(id) == CHOOSE r \in plcs : r.id = id

(***************************************************************************)
(* The record kept of the last completed call.                             *)
(*   op       the storage method or route that ran                         *)
(*   id       the PLC it was about (0: none)                               *)
(*   result   "ok", "throw" (the method threw), "insert_failed" (an insert *)
(*            into table variables threw), "not_found" or "invalid"        *)
(*   http     the status code the route answered                           *)
(*   gateway  what the fetch to the gateway did: "none" (no fetch was      *)
(*            made), "throw", "not_ok", "ok", "ok_connected", "ok_other"   *)
(*   at       the clock when the call completed                            *)
(*   input    the configuration or the update the call was given, or the   *)
(*            error that rejected the request                              *)
(*   inserted the variable rows the call inserted, one sequence per        *)
(*            address mapping of its input                                 *)
(*   response the body of the answer, for the routes that list PLCs        *)
(***************************************************************************)
\* the body of a response that the model does not look into
NoResponse == [none |-> TRUE]

Completed(op, id, result, http, gateway, input, inserted) ==
    [op |-> op, id |-> id, result |-> result,
     http |-> http, gateway |-> gateway, at |-> now, input |-> input,
     inserted |-> inserted, response |-> NoResponse]

NoInput == [none |-> TRUE]

\* the record of a call whose answer carries a body the model looks into
Answered(op, id, result, http, input, inserted, response) ==
    [Completed(op, id, result, http, "none", input, inserted)
     EXCEPT !.response = response]

(***************************************************************************)
(* SqlStorage.getAllPLCs and GET /api/plcs                                 *)
(***************************************************************************)
\* the address mapping getAllPLCs and getPLCById make of a variable row
AddressMapping(v) ==
    [node_name |-> v.node_name, node_id |-> v.reg_address,
     description |-> OrString(v.description, Undefined),
     data_type |-> v.data_type]

\* select().from(variables).where(eq(variables.plc_no, plcNo || 1)) taken
\* from every table row instead of the rows of the number
VariablesOf_AllRows(plcNo) == variables
\* select().from(variables).where(eq(variables.plc_no, plcNo || 1))
VariablesOf(plcNo) == SelectSeq(variables, LAMBDA v : v.plc_no = OrOne(plcNo))

\* the PLC object built from a row of table plcs and its address mappings
PLCOf(r, mappings) ==
    [id |-> r.id, plc_name |-> r.plc_name,
     plc_no |-> IF NoPlcNo(r.plc_no) THEN NullNo ELSE r.plc_no,
     plc_ip |-> r.plc_ip, opcua_url |-> r.opcua_url,
     plc_status |-> r.plc_status, opcua_status |-> r.opcua_status,
     last_checked |-> r.last_checked, created_at |-> r.created_at,
     address_mappings |-> mappings]

\* the address mappings getAllPLCs gives the PLC of row r
MappingsOf(r, includeMappings) ==
    IF includeMappings
    THEN LET rows == VariablesOf(r.plc_no)
         IN [j \in DOMAIN rows |-> AddressMapping(rows[j])]
    ELSE <<>>

\* storage.getAllPLCs(includeMappings): the PLCs returned, and the number of
\* selects it ran on table variables
getAllPLCs(includeMappings) ==
    [plcs |-> {PLCOf(r, MappingsOf(r, includeMappings)) : r \in plcs},
     variableQueries |-> IF includeMappings THEN Cardinality(plcs) ELSE 0]

\* the values of the query parameter includeMappings
IncludeMappingsParams == {"true", "false", Undefined}

\* GET /api/plcs?includeMappings=param
listPLCs(param) ==
    /\ last' = [Completed("getAllPLCs", 0, "ok", 200, "none",
                          [includeMappings |-> (param = "true")], <<>>)
                 EXCEPT !.response = getAllPLCs(param = "true")]
    /\ UNCHANGED <<plcs, variables, now, nextId, inflight>>

(***************************************************************************)
(* SqlStorage.createPLC                                                    *)
(***************************************************************************)
\* the variable row createPLC inserts for one mapping of a PLCConfig
ConfigMappingRows(mapping, plcNo) ==
    << VarRow(OrOne(plcNo), mapping.node_name,
              OrString(mapping.description, ""), mapping.node_id,
              OrString(mapping.data_type, "string")) >>

\* the message of the Error createPLC and createPLCFromRaw throw for an
\* address that a stored PLC has
ConflictMessage(ip) ==
    "PLC with IP " \o ip \o " is already registered. To change it, delete the existing PLC and reupload the file."

\* the body of the 500 of POST /api/plcs, given the message of the Error
\* that was thrown: the message is logged, not sent
CreateErrorBody(message) == [error |-> "Failed to create PLC"]

\* the PLC object createPLC and createPLCFromRaw return: plcData and the
\* mapping list the method builds from its input
ReturnedPLC(id, config, t, mappings) ==
    [id |-> id, plc_name |-> config.plc_name, plc_no |-> config.plc_no,
     plc_ip |-> config.plc_ip, opcua_url |-> config.opcua_url,
     plc_status |-> "disconnected", opcua_status |-> "disconnected",
     last_checked |-> t, created_at |-> t, address_mappings |-> mappings]

\* POST /api/plcs with a body that passes plcConfigSchema: storage.createPLC,
\* answered 201, or 500 when createPLC throws
createPLC(config) ==
    IF ExistingPLC(config.plc_ip) # {}
    THEN /\ last' = Answered("createPLC", 0, "throw", 500, config, <<>>,
                             CreateErrorBody(ConflictMessage(config.plc_ip)))
         /\ UNCHANGED <<plcs, variables, now, nextId, inflight>>
    ELSE /\ nextId <= MaxPLCs
         /\ LET rows == [i \in DOMAIN config.address_mappings |->
                           ConfigMappingRows(config.address_mappings[i], config.plc_no)]
            IN /\ plcs' = plcs \cup {NewPLCRow(nextId, config, now)}
               /\ variables' = variables \o Flatten(rows)
               /\ last' = Answered("createPLC", nextId, "ok", 201, config, rows,
                                   ReturnedPLC(nextId, config, now,
                                               config.address_mappings))
         /\ nextId' = nextId + 1
         /\ UNCHANGED <<now, inflight>>

(***************************************************************************)
(* SqlStorage.createPLCFromRaw                                             *)
(***************************************************************************)
\* `mapping.metadata?.bit_mappings` is truthy: the property holds an object,
\* an empty one included
BitMappingsTruthy(mapping) == mapping.bit_mappings.present

\* the row inserted for entry j of Object.keys(bitMappings); an entry without
\* a description leaves column description NULL
BitRow(mapping, j, plcNo) ==
    LET e == mapping.bit_mappings.entries[j]
    IN VarRow(OrOne(plcNo), mapping.opcua_reg_add \o "_" \o PadStart2(e.key),
              e.description, e.address, "bool")

\* RegularRow without the `|| "string"` default of the data type
RegularRow_NoDefault(mapping, plcNo) ==
    VarRow(OrOne(plcNo), mapping.opcua_reg_add,
           OrString(mapping.description, ""), mapping.plc_reg_add,
           mapping.data_type)

\* the row inserted for a mapping taken as a regular variable
RegularRow(mapping, plcNo) ==
    VarRow(OrOne(plcNo), mapping.opcua_reg_add,
           OrString(mapping.description, ""), mapping.plc_reg_add,
           OrString(mapping.data_type, "string"))

\* RawMappingRows that also inserts the channel's own row after its bit rows
RawMappingRows_WithParent(mapping, plcNo) ==
    IF BitMappingsTruthy(mapping)
    THEN [j \in 1..Len(mapping.bit_mappings.entries) |-> BitRow(mapping, j, plcNo)]
         \o << RegularRow(mapping, plcNo) >>
    ELSE << RegularRow(mapping, plcNo) >>

\* the variable rows createPLCFromRaw inserts for one raw mapping
RawMappingRows(mapping, plcNo) ==
    IF BitMappingsTruthy(mapping)
    THEN [j \in 1..Len(mapping.bit_mappings.entries) |-> BitRow(mapping, j, plcNo)]
    ELSE << RegularRow(mapping, plcNo) >>

\* the address_mappings of the PLC object createPLCFromRaw returns: one per
\* raw mapping
RawReturnedMappings(rawConfig) ==
    [i \in DOMAIN rawConfig.address_mappings |->
       LET m == rawConfig.address_mappings[i]
       IN [node_name |-> m.opcua_reg_add, node_id |-> m.plc_reg_add,
           description |-> m.description, data_type |-> m.data_type]]

\* POST /api/upload/json with a document that passes rawJSONSchema:
\* storage.createPLCFromRaw(rawConfig.plcs[0]), answered 200, or 500 when it
\* throws
createPLCFromRaw(rawConfig) ==
    IF ExistingPLC(rawConfig.plc_ip) # {}
    THEN /\ last' = Completed("createPLCFromRaw", 0, "throw", 500, "none", rawConfig, <<>>)
         /\ UNCHANGED <<plcs, variables, now, nextId, inflight>>
    ELSE /\ nextId <= MaxPLCs
         /\ LET rows == [i \in DOMAIN rawConfig.address_mappings |->
                           RawMappingRows(rawConfig.address_mappings[i], rawConfig.plc_no)]
            IN /\ plcs' = plcs \cup {NewPLCRow(nextId, rawConfig, now)}
               /\ variables' = variables \o Flatten(rows)
               /\ last' = Answered("createPLCFromRaw", nextId, "ok", 200, rawConfig, rows,
                                   ReturnedPLC(nextId, rawConfig, now,
                                               RawReturnedMappings(rawConfig)))
         /\ nextId' = nextId + 1
         /\ UNCHANGED <<now, inflight>>

\* createPLCFromRaw when the k-th insert into table variables throws (a
\* NOT NULL or other constraint, a full disk, a locked database): the method
\* runs no transaction, so the row of table plcs and the k-1 rows inserted
\* before stay; the exception leaves the method and the route answers 500
createPLCFromRawInsertFails(rawConfig, k) ==
    /\ ExistingPLC(rawConfig.plc_ip) = {}
    /\ nextId <= MaxPLCs
    /\ LET rows == [i \in DOMAIN rawConfig.address_mappings |->
                      RawMappingRows(rawConfig.address_mappings[i], rawConfig.plc_no)]
           all == Flatten(rows)
       IN /\ k \in 1..Len(all)
          /\ plcs' = plcs \cup {NewPLCRow(nextId, rawConfig, now)}
          /\ variables' = variables \o SubSeq(all, 1, k - 1)
          /\ last' = Completed("createPLCFromRaw", nextId, "insert_failed", 500,
                               "none", rawConfig, << SubSeq(all, 1, k - 1) >>)
    /\ nextId' = nextId + 1
    /\ UNCHANGED <<now, inflight>>

(***************************************************************************)
(* Requests rejected before the repository is called                       *)
(***************************************************************************)
\* the status code of the catch block of POST /api/plcs
CreateErrorCode(error) == IF error = "ZodError" THEN 400 ELSE 500

\* POST /api/plcs with a body that plcConfigSchema.parse rejects: the
\* ZodError is thrown before storage.createPLC is reached
postPLCRejected ==
    /\ last' = Completed("postPLC", 0, "invalid", CreateErrorCode("ZodError"),
                         "none", [error |-> "ZodError"], <<>>)
    /\ UNCHANGED <<plcs, variables, now, nextId, inflight>>

\* what stops POST /api/upload/json before storage.createPLCFromRaw: no file
\* in the form, JSON.parse throwing, rawJSONSchema.parse throwing
UploadRejections == {"no_file", "SyntaxError", "ZodError"}

\* the catch block of the upload route without its SyntaxError case
UploadErrorCode_NoSyntaxError(error) == IF error = "ZodError" THEN 400 ELSE 500
\* the status code of the catch block of POST /api/upload/json
UploadErrorCode(error) == IF error \in {"ZodError", "SyntaxError"} THEN 400 ELSE 500

\* POST /api/upload/json with a request that is stopped before the
\* repository is called
uploadRejected(rejection) ==
    /\ last' = Completed("upload", 0, "invalid",
                         IF rejection = "no_file" THEN 400 ELSE UploadErrorCode(rejection),
                         "none", [error |-> rejection], <<>>)
    /\ UNCHANGED <<plcs, variables, now, nextId, inflight>>

(***************************************************************************)
(* SqlStorage.updatePLC                                                    *)
(***************************************************************************)
\* the columns updatePLC copies from `updates` into updateData
UpdateColumns ==
    {"plc_name", "plc_no", "plc_ip", "opcua_url", "plc_status", "opcua_status",
     "last_checked"}

\* updateData: the properties of `updates` that are columns, every other
\* property of `updates` dropped
UpdateData(updates) ==
    [c \in (DOMAIN updates) \cap UpdateColumns |-> updates[c]]

\* an update that replaces the row: a column updateData lacks is emptied
SetColumn_Replace(data, c, old) == IF c \in DOMAIN data THEN data[c] ELSE Undefined
\* the value .set(updateData) leaves in column c of a row holding old
SetColumn(data, c, old) == IF c \in DOMAIN data THEN data[c] ELSE old

\* the row after update(plcs).set(data)
SetColumns(r, data) ==
    [id |-> r.id,
     plc_name |-> SetColumn(data, "plc_name", r.plc_name),
     plc_no |-> SetColumn(data, "plc_no", r.plc_no),
     plc_ip |-> SetColumn(data, "plc_ip", r.plc_ip),
     opcua_url |-> SetColumn(data, "opcua_url", r.opcua_url),
     plc_status |-> SetColumn(data, "plc_status", r.plc_status),
     opcua_status |-> SetColumn(data, "opcua_status", r.opcua_status),
     last_checked |-> SetColumn(data, "last_checked", r.last_checked),
     created_at |-> r.created_at]

\* whether updatePLC(id, ...) finds the PLC (it returns undefined otherwise)
Found(id) == PLCRowsById(id) # {}

\* table plcs after storage.updatePLC(id, updates)
updatePLC(id, updates) ==
    IF ~Found(id) THEN plcs
    ELSE {IF r.id = id THEN SetColumns(r, UpdateData(updates)) ELSE r : r \in plcs}

\* PUT /api/plcs/:id
putPLC(id, updates) ==
    /\ plcs' = updatePLC(id, updates)
    /\ last' = IF Found(id)
               THEN Completed("updatePLC", id, "ok", 200, "none", updates, <<>>)
               ELSE Completed("updatePLC", id, "not_found", 404, "none", updates, <<>>)
    /\ UNCHANGED <<variables, now, nextId, inflight>>

(***************************************************************************)
(* SqlStorage.deletePLC and DELETE /api/plcs/:id                           *)
(***************************************************************************)
\* table variables after delete(variables).where(eq(variables.plc_no, plcNo)),
\* which deletePLC skips when the PLC's plc_no is NULL
DeleteVariables_None(plcNo) == variables
DeleteVariables(plcNo) ==
    IF plcNo = NullNo THEN variables
    ELSE SelectSeq(variables, LAMBDA v : v.plc_no # plcNo)

\* a route that gives up with 500 when the gateway's deletion did not succeed
deletePLC_GatewayRequired(id, gateway) ==
    IF ~Found(id)
    THEN /\ last' = Completed("deletePLC", id, "not_found", 404, gateway, NoInput, <<>>)
         /\ UNCHANGED <<plcs, variables>>
    ELSE IF gateway \in {"throw", "not_ok"}
    THEN /\ last' = Completed("deletePLC", id, "throw", 500, gateway, NoInput, <<>>)
         /\ UNCHANGED <<plcs, variables>>
    ELSE /\ variables' = DeleteVariables(RowOf(id).plc_no)
         /\ plcs' = plcs \ PLCRowsById(id)
         /\ last' = Completed("deletePLC", id, "ok", 204, gateway, NoInput, <<>>)
\* storage.deletePLC(id) and the answer of the route: 204, or 404 when
\* deletePLC returns false
deletePLC(id, gateway) ==
    IF ~Found(id)
    THEN /\ last' = Completed("deletePLC", id, "not_found", 404, gateway, NoInput, <<>>)
         /\ UNCHANGED <<plcs, variables>>
    ELSE /\ variables' = DeleteVariables(RowOf(id).plc_no)
         /\ plcs' = plcs \ PLCRowsById(id)
         /\ last' = Completed("deletePLC", id, "ok", 204, gateway, NoInput, <<>>)

\* DELETE /api/plcs/:id up to the fetch of http://localhost:8000/delete_plc,
\* which is made only for a PLC with a plc_no
deleteStart(id) ==
    /\ [kind |-> "delete", id |-> id] \notin inflight
    /\ IF ~Found(id)
       THEN /\ last' = Completed("deletePLC", id, "not_found", 404, "none", NoInput, <<>>)
            /\ UNCHANGED <<plcs, variables, inflight>>
       ELSE IF NoPlcNo(RowOf(id).plc_no)
            THEN deletePLC(id, "none") /\ UNCHANGED inflight
            ELSE /\ inflight' = inflight \cup {[kind |-> "delete", id |-> id]}
                 /\ UNCHANGED <<plcs, variables, last>>
    /\ UNCHANGED <<now, nextId>>

\* what a fetch of the gateway can do: reject (unreachable, aborted), answer
\* non-2xx, answer 2xx
DeleteOutcomes == {"throw", "not_ok", "ok"}

\* DELETE /api/plcs/:id from the gateway's reply on
deleteReply(id, outcome) ==
    /\ [kind |-> "delete", id |-> id] \in inflight
    /\ inflight' = inflight \ {[kind |-> "delete", id |-> id]}
    /\ deletePLC(id, outcome)
    /\ UNCHANGED <<now, nextId>>

(***************************************************************************)
(* The clock.                                                              *)
(***************************************************************************)
Tick ==
    /\ now < MaxTime
    /\ now' = now + 1
    /\ UNCHANGED <<plcs, variables, nextId, inflight, last>>

(***************************************************************************)
(* POST /api/plcs/:id/connect, GET /api/plcs/:id/check-status,             *)
(* POST /api/plcs/:id/disconnect                                           *)
(***************************************************************************)
\* what the fetch of http://localhost:8000/connect can do: reject (gateway
\* unreachable, or aborted by the 10 s timer), answer non-2xx, answer 2xx
\* with status "connected", answer 2xx with another status
GatewayOutcomes == {"throw", "not_ok", "ok_connected", "ok_other"}

\* a check of plc_no alone
MissingNoOrUrl_NoOnly(r) == NoPlcNo(r.plc_no)
\* `!plc.plc_no || !plc.opcua_url`
MissingNoOrUrl(r) == NoPlcNo(r.plc_no) \/ r.opcua_url = Undefined \/ r.opcua_url = ""

\* the update both handlers write back after the gateway answered
StatusUpdate(outcome) ==
    [status |-> IF outcome = "ok_connected" THEN "active" ELSE "error",
     is_connected |-> (outcome = "ok_connected"),
     last_checked |-> now]

\* the update of the catch blocks
ErrorUpdate == [status |-> "error", is_connected |-> FALSE, last_checked |-> now]

\* the update of the disconnect handler
DisconnectUpdate == [is_connected |-> FALSE, status |-> "maintenance", last_checked |-> now]

\* either handler up to its fetch; kind is "connect" or "check-status"
probeStart(kind, id) ==
    /\ [kind |-> kind, id |-> id] \notin inflight
    /\ IF ~Found(id)
       THEN /\ last' = Completed(kind, id, "not_found", 404, "none", NoInput, <<>>)
            /\ UNCHANGED inflight
       ELSE IF MissingNoOrUrl(RowOf(id))
            THEN /\ last' = Completed(kind, id, "invalid", 400, "none", NoInput, <<>>)
                 /\ UNCHANGED inflight
            ELSE /\ inflight' = inflight \cup {[kind |-> kind, id |-> id]}
                 /\ UNCHANGED last
    /\ UNCHANGED <<plcs, variables, now, nextId>>

connectStart(id) == probeStart("connect", id)

checkStatusStart(id) == probeStart("check-status", id)

\* the status code of the connect handler once the fetch has settled
ConnectCode(id, outcome) ==
    IF outcome = "throw" THEN 500
    ELSE IF ~Found(id) THEN 500
    ELSE 200

\* the connect handler from the gateway's reply on
connectReply(id, outcome) ==
    /\ [kind |-> "connect", id |-> id] \in inflight
    /\ inflight' = inflight \ {[kind |-> "connect", id |-> id]}
    /\ plcs' = IF outcome = "throw" THEN updatePLC(id, ErrorUpdate)
               ELSE updatePLC(id, StatusUpdate(outcome))
    /\ last' = Completed("connect", id, IF Found(id) THEN "ok" ELSE "not_found",
                         ConnectCode(id, outcome), outcome, NoInput, <<>>)
    /\ UNCHANGED <<variables, now, nextId>>

\* the status code of the check-status handler once the fetch has settled
CheckStatusCode(id, outcome) == IF outcome = "throw" THEN 500 ELSE 200

\* the check-status handler from the gateway's reply on
checkStatusReply(id, outcome) ==
    /\ [kind |-> "check-status", id |-> id] \in inflight
    /\ inflight' = inflight \ {[kind |-> "check-status", id |-> id]}
    /\ plcs' = IF outcome = "throw" THEN updatePLC(id, ErrorUpdate)
               ELSE updatePLC(id, StatusUpdate(outcome))
    /\ last' = Completed("check-status", id, IF Found(id) THEN "ok" ELSE "not_found",
                         CheckStatusCode(id, outcome), outcome, NoInput, <<>>)
    /\ UNCHANGED <<variables, now, nextId>>

\* the gateway calls on PLC id that are awaited while another request runs
Pending(id) == {f \in inflight : f.id = id}

\* POST /api/plcs/:id/disconnect; the handler touches no other request, and
\* last records the gateway calls on the PLC that were pending when it ran
disconnect(id) ==
    /\ plcs' = updatePLC(id, DisconnectUpdate)
    /\ last' = IF Found(id)
               THEN Completed("disconnect", id, "ok", 200, "none",
                              [pending |-> Pending(id)], <<>>)
               ELSE Completed("disconnect", id, "not_found", 404, "none",
                              [pending |-> Pending(id)], <<>>)
    /\ UNCHANGED <<variables, now, nextId, inflight>>

(***************************************************************************)
(* GET /api/plcs/all-status                                                *)
(*                                                                         *)
(* The handler is modelled as it runs once invoked.  registerRoutes        *)
(* registers GET /api/plcs/:id before it, so a request for the path        *)
(* /api/plcs/all-status is matched by that earlier route first.            *)
(***************************************************************************)
\* what the handler reads of a PLC object of storage.getAllPLCs(false)
StatusView(p) ==
    [id |-> p.id, plc_no |-> p.plc_no, plc_ip |-> p.plc_ip, opcua_url |-> p.opcua_url]

\* new Map(plcs.map(plc => [plc.plc_no, plc])), as the PLCs it holds: of the
\* PLCs that have the same plc_no the Map keeps the one set last, and
\* getAllPLCs lists the rows in insertion order
PlcMap(listed) ==
    {p \in listed : \A q \in listed : q.plc_no = p.plc_no => q.id <= p.id}

\* the entries of pythonStatusResults for which plcMap.get finds a PLC
Matched(listed, reports) ==
    {e \in reports : \E p \in PlcMap(listed) : p.plc_no = e.plc_no}

\* plcMap.get(pythonStatus.plc_no)
MapGet(listed, plcNo) == CHOOSE p \in PlcMap(listed) : p.plc_no = plcNo

\* connectionStatus
ConnectionStatus(e) == IF e.status = "active" THEN "active" ELSE "error"

\* the update written for an entry of the gateway's answer
AllStatusUpdate(e) ==
    [status |-> ConnectionStatus(e), is_connected |-> e.is_connected,
     last_checked |-> now]

\* the report pushed for an entry of the gateway's answer and its PLC
GatewayReport(p, e) ==
    [plc_id |-> p.id, plc_no |-> e.plc_no, plc_ip |-> p.plc_ip,
     plc_status |-> e.plc_status, opcua_status |-> e.opcua_status,
     is_connected |-> e.is_connected, status |-> ConnectionStatus(e),
     message |-> e.message]

\* the report pushed for a PLC left in plcMap
LocalReport(p) ==
    [plc_id |-> p.id, plc_no |-> IF p.plc_no = NullNo THEN 0 ELSE p.plc_no,
     plc_ip |-> p.plc_ip,
     plc_status |-> "disconnected", opcua_status |-> "disconnected",
     is_connected |-> FALSE, status |-> "error",
     message |-> "Not connected to backend"]

\* statusResults
StatusResults(listed, reports) ==
    {GatewayReport(MapGet(listed, e.plc_no), e) : e \in Matched(listed, reports)}
    \cup
    {LocalReport(p) :
       p \in {q \in PlcMap(listed) : \A e \in reports : e.plc_no # q.plc_no}}

\* the answer of the handler, with what it listed and what the gateway said;
\* overlapped tells that another request of the handler wrote its updates
\* while this one waited for the gateway
AllStatusCompleted(listed, gateway, reports, overlapped) ==
    [Completed("all-status", 0, "ok", 200, gateway,
               [plcs |-> listed, reports |-> reports, overlapped |-> overlapped],
               <<>>)
     EXCEPT !.response = StatusResults(listed, reports)]

\* the handler up to its fetch of http://localhost:8000/all-status; with no
\* PLC stored it answers [] at once.  poll tells the requests of the handler
\* that wait for the gateway at the same time apart
allStatusStart(poll) ==
    /\ \A f \in inflight : f.kind = "all-status" => f.poll # poll
    /\ LET listed == {StatusView(p) : p \in getAllPLCs(FALSE).plcs}
       IN IF listed = {}
          THEN /\ last' = AllStatusCompleted({}, "none", {}, FALSE)
               /\ UNCHANGED inflight
          ELSE /\ inflight' = inflight \cup {[kind |-> "all-status", poll |-> poll,
                                              plcs |-> listed, overlapped |-> FALSE]}
               /\ UNCHANGED last
    /\ UNCHANGED <<plcs, variables, now, nextId>>

\* pythonStatusResults: the gateway's list after a 2xx answer, [] after a
\* non-2xx answer or a rejected fetch
PythonStatusResults(outcome) ==
    IF outcome.kind = "ok" THEN outcome.reports ELSE {}

\* the handler from the gateway's reply on: storage.updatePLC for every
\* matched entry, then the answer
allStatusReply(outcome) ==
    \E f \in inflight :
       /\ f.kind = "all-status"
       /\ LET reports == PythonStatusResults(outcome)
              matched == Matched(f.plcs, reports)
              EntryOf(r) == CHOOSE e \in matched : MapGet(f.plcs, e.plc_no).id = r.id
          IN /\ plcs' = {IF \E e \in matched : MapGet(f.plcs, e.plc_no).id = r.id
                         THEN SetColumns(r, UpdateData(AllStatusUpdate(EntryOf(r))))
                         ELSE r : r \in plcs}
             /\ inflight' = {IF g.kind = "all-status" /\ plcs' # plcs
                             THEN [g EXCEPT !.overlapped = TRUE] ELSE g :
                               g \in inflight \ {f}}
             /\ last' = AllStatusCompleted(f.plcs, outcome.kind, reports, f.overlapped)
       /\ UNCHANGED <<variables, now, nextId>>

(***************************************************************************)
(* MemStorage, the Map-based implementation of IStorage.  In SpecMem the   *)
(* variable plcs holds the values of its Map (PLC objects, with their      *)
(* address_mappings) and table variables stays empty.                      *)
(***************************************************************************)
\* the PLC object MemStorage.createPLC builds: the config spread, then the
\* generated fields
MemPLC(id, config, t) ==
    [id |-> id, plc_name |-> config.plc_name, plc_no |-> config.plc_no,
     plc_ip |-> config.plc_ip, opcua_url |-> config.opcua_url,
     address_mappings |-> config.address_mappings,
     plc_status |-> "disconnected", opcua_status |-> "disconnected",
     last_checked |-> t, created_at |-> t]

\* MemStorage.createPLC(config): the Map is set, whatever it holds
memCreatePLC(config) ==
    /\ nextId <= MaxPLCs
    /\ plcs' = plcs \cup {MemPLC(nextId, config, now)}
    /\ last' = Answered("createPLC", nextId, "ok", 0, config, <<>>,
                        MemPLC(nextId, config, now))
    /\ nextId' = nextId + 1
    /\ UNCHANGED <<variables, now, inflight>>

\* { ...existing, ...updates }
Spread(existing, updates) == updates @@ existing

\* MemStorage.updatePLC(id, updates)
memUpdatePLC(id, updates) ==
    /\ IF Found(id)
       THEN /\ plcs' = (plcs \ PLCRowsById(id)) \cup {Spread(RowOf(id), updates)}
            /\ last' = Completed("updatePLC", id, "ok", 0, "none", updates, <<>>)
       ELSE /\ plcs' = plcs
            /\ last' = Completed("updatePLC", id, "not_found", 0, "none", updates, <<>>)
    /\ UNCHANGED <<variables, now, nextId, inflight>>

\* MemStorage.deletePLC(id): Map.delete, true when the key was there
memDeletePLC(id) ==
    /\ plcs' = plcs \ PLCRowsById(id)
    /\ last' = Completed("deletePLC", id, IF Found(id) THEN "ok" ELSE "not_found",
                         0, "none", NoInput, <<>>)
    /\ UNCHANGED <<variables, now, nextId, inflight>>

\* MemStorage.getPLCById(id)
memGetPLCById(id) ==
    /\ last' = Completed("getPLCById", id, IF Found(id) THEN "ok" ELSE "not_found",
                         0, "none", NoInput, <<>>)
    /\ UNCHANGED <<plcs, variables, now, nextId, inflight>>

\* MemStorage.getAllPLCs()
memGetAllPLCs ==
    /\ last' = Answered("getAllPLCs", 0, "ok", 0, NoInput, <<>>, [plcs |-> plcs])
    /\ UNCHANGED <<plcs, variables, now, nextId, inflight>>

\* what SqlStorage answers to the call named by op on the PLCs held in plcs
SqlOutcome(op, id, input) ==
    CASE op = "createPLC" -> IF ExistingPLC(input.plc_ip) # {} THEN "throw" ELSE "ok"
      [] op = "getAllPLCs" -> "ok"
      [] OTHER -> IF Found(id) THEN "ok" ELSE "not_found"

\* the rows SqlStorage holds after the call named by op on the PLCs held in
\* plcs
SqlPLCsAfter(op, id, input) ==
    CASE op = "createPLC" ->
           IF ExistingPLC(input.plc_ip) # {} THEN plcs
           ELSE plcs \cup {NewPLCRow(id, input, now)}
      [] op = "updatePLC" -> updatePLC(id, input)
      [] op = "deletePLC" -> plcs \ PLCRowsById(id)
      [] OTHER -> plcs

(***************************************************************************)
(* The variables table: Dashboard.createNormalizedPLCFromConfig and        *)
(* EnhancedVariablesTable, on the PLC object the server returned.          *)
(***************************************************************************)
\* storage.getPLCById(id) for a stored id: the row with its address mappings
getPLCById(id) == PLCOf(RowOf(id), MappingsOf(RowOf(id), TRUE))

\* s.endsWith(suffix)
EndsWith(s, suffix) ==
    Len(s) >= Len(suffix) /\ SubSeq(s, Len(s) - Len(suffix) + 1, Len(s)) = suffix

RECURSIVE IndexOf(_, _, _)
\* the first position from i on at which sub occurs in s, 0 when there is none
IndexOf(s, sub, i) ==
    IF i + Len(sub) - 1 > Len(s) THEN 0
    ELSE IF SubSeq(s, i, i + Len(sub) - 1) = sub THEN i
    ELSE IndexOf(s, sub, i + 1)

\* s.replace(sub, by): the first occurrence of sub replaced
Replace(s, sub, by) ==
    LET i == IndexOf(s, sub, 1)
    IN IF i = 0 THEN s
       ELSE SubSeq(s, 1, i - 1) \o by \o SubSeq(s, i + Len(sub), Len(s))

\* n.toString() for a number below 100
NumberString(n) ==
    LET digit(d) == SubSeq("0123456789", d + 1, d + 1)
    IN IF n < 10 THEN digit(n) ELSE digit(n \div 10) \o digit(n % 10)

\* bitCount, the number of bit rows made up for a _BC variable
BitCount == 8

\* the variable made from the address mapping at position index (from 1)
NormalizedVariable(plc, mapping, index) ==
    [id |-> OrString(mapping.node_id,
                     NumberString(plc.id) \o "_var_" \o NumberString(index - 1)),
     type |-> IF mapping.data_type = "channel" THEN "channel" ELSE "bool",
     plc_reg_add |-> mapping.node_id,
     opcua_reg_add |-> mapping.node_name,
     description |-> OrString(mapping.description, "No description"),
     data_type |-> OrString(mapping.data_type, "unknown")]

\* the bit variable made up for bit `bit` of the _BC variable of a mapping
BitVariable(variable, mapping, bit) ==
    LET bitNumber == PadStart2(NumberString(bit))
    IN [id |-> variable.id \o "_bit_" \o bitNumber,
        type |-> "bool",
        plc_reg_add |-> Replace(mapping.node_id, "_BC", "") \o "." \o bitNumber,
        opcua_reg_add |-> Replace(mapping.node_name, "_BC", "_BC_" \o bitNumber),
        description |-> "Bit " \o bitNumber \o " of "
                          \o OrString(mapping.description, mapping.node_name),
        data_type |-> "bool",
        parentId |-> variable.id,
        bitPosition |-> bit]

\* what one address mapping pushes to `variables`
MappingVariables(plc, mapping, index) ==
    LET variable == NormalizedVariable(plc, mapping, index)
    IN IF EndsWith(mapping.node_name, "_BC")
       THEN << [hasChildren |-> TRUE] @@ [variable EXCEPT !.type = "channel"] >>
            \o [b \in 1..BitCount |-> BitVariable(variable, mapping, b - 1)]
       ELSE << variable >>

\* the variables shown for a PLC without address mappings
DefaultVariables(plc) ==
    << [id |-> NumberString(plc.id) \o "_default_1", type |-> "bool",
        plc_reg_add |-> "M10", opcua_reg_add |-> "ns=2;i=1001",
        description |-> "Default Boolean Variable", data_type |-> "bool"],
       [id |-> NumberString(plc.id) \o "_default_2", type |-> "channel",
        plc_reg_add |-> "D100", opcua_reg_add |-> "ns=2;i=1002",
        description |-> "Default Channel Variable", data_type |-> "channel",
        hasChildren |-> FALSE] >>

\* createNormalizedPLCFromConfig(plc), as the id and the variables of the
\* NormalizedPLC (its other properties are copies of those of plc and counts
\* of the variables)
createNormalizedPLCFromConfig(plc) ==
    LET made == Flatten([i \in DOMAIN plc.address_mappings |->
                           MappingVariables(plc, plc.address_mappings[i], i)])
    IN [id |-> plc.id,
        variables |-> IF made = <<>> THEN DefaultVariables(plc) ELSE made]

\* the bit row transformedVariables makes of a _BC variable for one entry of
\* its metadata.bit_mappings
ExpandedBitRow(variable, bitData) ==
    LET bitNumber == IF bitData.bit_position = NullNo THEN "00"
                     ELSE PadStart2(NumberString(bitData.bit_position))
    IN [isBitRow |-> TRUE, parentId |-> variable.id,
        bitPosition |-> IF bitData.bit_position = NullNo THEN 0
                        ELSE bitData.bit_position]
       @@ [variable EXCEPT
             !.id = variable.id \o "_bit_" \o bitNumber,
             !.opcua_reg_add = Replace(variable.opcua_reg_add, "_BC", "_" \o bitNumber),
             !.plc_reg_add = variable.plc_reg_add \o "_" \o bitNumber,
             !.description = OrString(bitData.description,
                                      variable.description \o " - Bit " \o bitNumber),
             !.type = "bool"]

\* transformedVariables: a _BC variable that carries metadata.bit_mappings
\* is replaced by its bit rows, in the order of Object.entries; every other
\* variable is kept
transformedVariables(vs) ==
    Flatten([i \in DOMAIN vs |->
               IF /\ EndsWith(vs[i].opcua_reg_add, "_BC")
                  /\ "metadata" \in DOMAIN vs[i]
                  /\ vs[i].metadata.bit_mappings.present
               THEN [j \in DOMAIN vs[i].metadata.bit_mappings.entries |->
                       ExpandedBitRow(vs[i], vs[i].metadata.bit_mappings.entries[j])]
               ELSE << vs[i] >>])

getParentVariables(vs) ==
    SelectSeq(vs, LAMBDA v : v.type = "channel" \/ "parentId" \notin DOMAIN v)

getChildVariables(vs, parentId) ==
    SelectSeq(vs, LAMBDA v : "parentId" \in DOMAIN v /\ v.parentId = parentId)

\* the table's rows for the flat list of address mappings of a PLC
Reconstruction(plc) ==
    transformedVariables(createNormalizedPLCFromConfig(plc).variables)

\* the Dashboard shows the stored PLC id: last records the address mappings
\* it was given and the variables of the table
display(id) ==
    /\ Found(id)
    /\ last' = Answered("display", id, "ok", 200,
                        [mappings |-> getPLCById(id).address_mappings], <<>>,
                        [variables |-> Reconstruction(getPLCById(id))])
    /\ UNCHANGED <<plcs, variables, now, nextId, inflight>>

(***************************************************************************)
(* Inputs.                                                                 *)
(***************************************************************************)
\* the sequences over S of length at most n
SeqsUpTo(S, n) == UNION {[1..k -> S] : k \in 0..n}

\* the identifiers a request can name: the ones handed out and one never stored
Ids == 1..(MaxPLCs + 1)

Ips == {"10.0.0.5", "10.0.0.6"}

\* metadata.bit_mappings
NoBitMappings == [present |-> FALSE, entries |-> <<>>]

EmptyBitMappings == [present |-> TRUE, entries |-> <<>>]

BitEntry(key, address, description) ==
    [key |-> key, address |-> address, description |-> description]

BitMappings(entries) == [present |-> TRUE, entries |-> entries]

RawMapping(opcua, reg, description, dataType, bits) ==
    [opcua_reg_add |-> opcua, plc_reg_add |-> reg, description |-> description,
     data_type |-> dataType, bit_mappings |-> bits]

\* raw mappings of every shape createPLCFromRaw tells apart: with and
\* without data type and description, with bit mappings (keys of one and of
\* two digits, entries with and without a description), with an empty
\* bit_mappings object
RawMappings ==
    { RawMapping("D100", "D100", "Speed", "int16", NoBitMappings),
      RawMapping("D200", "D200", Undefined, Undefined, NoBitMappings),
      RawMapping("M10_BC", "M10", "Start/Stop", "channel",
                 BitMappings(<< BitEntry("0", "M10.0", "Start"),
                                BitEntry("10", "M10.10", Undefined) >>)),
      RawMapping("M30_BC", "M30", "Spare", "channel", EmptyBitMappings) }

\* the uploaded PLC blocks of SpecRaw: every sequence of raw mappings, and
\* one block without a plc_no, whose row stays behind when its PLC is deleted
RawConfigs ==
    [plc_name : {"Line1"}, plc_no : {3}, plc_ip : {"10.0.0.5"},
     opcua_url : {"opc.tcp://x"},
     address_mappings : SeqsUpTo(RawMappings, MaxMappings)]
    \cup
    [plc_name : {"Line0"}, plc_no : {NullNo}, plc_ip : {"10.0.0.5"},
     opcua_url : {"opc.tcp://x"},
     address_mappings : {<< RawMapping("D100", "D100", "Speed", "int16", NoBitMappings) >>}]

\* the uploaded PLC blocks of Spec
SmallRawConfigs ==
    [plc_name : {"Line1"}, plc_no : {3}, plc_ip : {"10.0.0.6"}, opcua_url : {"opc.tcp://x"},
     address_mappings : {<< RawMapping("M10_BC", "M10", "Start/Stop", "channel",
                              BitMappings(<< BitEntry("0", "M10.0", "Start") >>)) >>}]

ConfigMapping(name, nodeId, description, dataType) ==
    [node_name |-> name, node_id |-> nodeId, description |-> description,
     data_type |-> dataType]

\* the bodies of POST /api/plcs
Configs ==
    [plc_name : {"Line1"}, plc_no : {NullNo, 3}, plc_ip : Ips,
     opcua_url : {"opc.tcp://x"},
     address_mappings : {<< ConfigMapping("D100", "D100", "Speed", "int16") >>}]

\* the bodies of PUT /api/plcs/:id
PutUpdates == {[plc_ip |-> "10.0.0.5"], [plc_no |-> 4]}

\* the bodies of POST /api/plcs of SpecProxy
ProxyConfigs ==
    [plc_name : {"Line1"}, plc_no : {NullNo, 3}, plc_ip : {"10.0.0.5"},
     opcua_url : {"opc.tcp://x"}, address_mappings : {<<>>}]

\* the bodies of PUT /api/plcs/:id of SpecProxy
ProxyUpdates ==
    {[plc_status |-> "connected", opcua_status |-> "connected"]}

\* the bodies of POST /api/plcs of SpecStatus: PLCs with and without a
\* number, two of which can have the same number
StatusConfigs ==
    [plc_name : {"Line1"}, plc_no : {NullNo, 3}, plc_ip : Ips,
     opcua_url : {"opc.tcp://x"}, address_mappings : {<<>>}]

\* an entry of the gateway's bulk answer
StatusEntry(plcNo, connected) ==
    [plc_no |-> plcNo,
     status |-> IF connected THEN "active" ELSE "inactive",
     is_connected |-> connected,
     plc_status |-> IF connected THEN "connected" ELSE "disconnected",
     opcua_status |-> IF connected THEN "connected" ELSE "disconnected",
     message |-> IF connected THEN "Connected" ELSE "Not connected"]

\* the gateway's bulk answers: at most one entry per number, for a number
\* that local PLCs have and for one that none has
StatusReports ==
    {R \in SUBSET {StatusEntry(3, TRUE), StatusEntry(3, FALSE), StatusEntry(5, TRUE)} :
       \A e1, e2 \in R : e1.plc_no = e2.plc_no => e1 = e2}

\* what the fetch of http://localhost:8000/all-status can do
AllStatusOutcomes ==
    {[kind |-> "throw", reports |-> {}], [kind |-> "not_ok", reports |-> {}]}
    \cup {[kind |-> "ok", reports |-> R] : R \in StatusReports}

\* the bodies of PUT /api/plcs/:id of SpecProbe: the gateway URL emptied
ProbeUpdates == {[opcua_url |-> ""]}

(***************************************************************************)
(* Specifications.                                                         *)
(***************************************************************************)
Init ==
    /\ plcs = {}
    /\ variables = <<>>
    /\ now = 0
    /\ nextId = 1
    /\ inflight = {}
    /\ last = [op |-> "none", id |-> 0, result |-> "ok", http |-> 0,
               gateway |-> "none", at |-> 0, input |-> NoInput, inserted |-> <<>>,
               response |-> NoResponse]

\* the repository driven through the create, update and delete routes
Next ==
    \/ \E config \in Configs : createPLC(config)
    \/ \E rawConfig \in SmallRawConfigs : createPLCFromRaw(rawConfig)
    \/ postPLCRejected
    \/ \E rejection \in UploadRejections : uploadRejected(rejection)
    \/ \E id \in Ids, updates \in PutUpdates : putPLC(id, updates)
    \/ \E id \in Ids : deleteStart(id)
    \/ \E id \in Ids, outcome \in DeleteOutcomes : deleteReply(id, outcome)

Spec == Init /\ [][Next]_vars

\* uploads of every shape of raw mapping
NextRaw ==
    \/ \E rawConfig \in RawConfigs : createPLCFromRaw(rawConfig)
    \/ \E id \in Ids : deleteStart(id)
    \/ \E id \in Ids, outcome \in DeleteOutcomes : deleteReply(id, outcome)

SpecRaw == Init /\ [][NextRaw]_vars

\* the connect, check-status and disconnect handlers against the gateway
NextProxy ==
    \/ \E config \in ProxyConfigs : createPLC(config)
    \/ \E id \in Ids, updates \in ProxyUpdates : putPLC(id, updates)
    \/ \E id \in Ids : connectStart(id)
    \/ \E id \in Ids, outcome \in GatewayOutcomes : connectReply(id, outcome)
    \/ \E id \in Ids : checkStatusStart(id)
    \/ \E id \in Ids, outcome \in GatewayOutcomes : checkStatusReply(id, outcome)
    \/ \E id \in Ids : disconnect(id)
    \/ \E id \in Ids : deleteStart(id)
    \/ \E id \in Ids, outcome \in DeleteOutcomes : deleteReply(id, outcome)
    \/ Tick

SpecProxy == Init /\ [][NextProxy]_vars

\* the inserts into table variables that can be the one that throws
InsertPositions == 1..(2 * MaxMappings)

\* uploads during which an insert into table variables can throw
NextAtomic ==
    \/ \E rawConfig \in RawConfigs : createPLCFromRaw(rawConfig)
    \/ \E rawConfig \in RawConfigs, k \in InsertPositions :
          createPLCFromRawInsertFails(rawConfig, k)
    \/ \E id \in Ids : deleteStart(id)
    \/ \E id \in Ids, outcome \in DeleteOutcomes : deleteReply(id, outcome)

SpecAtomic == Init /\ [][NextAtomic]_vars

\* the repository read back through GET /api/plcs
NextRead ==
    \/ \E config \in Configs : createPLC(config)
    \/ \E rawConfig \in SmallRawConfigs : createPLCFromRaw(rawConfig)
    \/ \E id \in Ids, updates \in PutUpdates : putPLC(id, updates)
    \/ \E id \in Ids : deleteStart(id)
    \/ \E id \in Ids, outcome \in DeleteOutcomes : deleteReply(id, outcome)
    \/ \E param \in IncludeMappingsParams : listPLCs(param)

SpecRead == Init /\ [][NextRead]_vars

\* the bulk status handler against the gateway
NextStatus ==
    \/ \E config \in StatusConfigs : createPLC(config)
    \/ \E id \in Ids, updates \in ProxyUpdates : putPLC(id, updates)
    \/ allStatusStart(1)
    \/ \E outcome \in AllStatusOutcomes : allStatusReply(outcome)
    \/ Tick

SpecStatus == Init /\ [][NextStatus]_vars

\* the bodies of POST /api/plcs of SpecPolls
PollConfigs ==
    [plc_name : {"Line1"}, plc_no : {3}, plc_ip : {"10.0.0.5"},
     opcua_url : {"opc.tcp://x"}, address_mappings : {<<>>}]

\* the requests of the bulk status handler that can wait for the gateway at
\* the same time
Polls == 1..MaxPolls

\* bulk status requests that overlap
NextPolls ==
    \/ \E config \in PollConfigs : createPLC(config)
    \/ \E poll \in Polls : allStatusStart(poll)
    \/ \E outcome \in AllStatusOutcomes : allStatusReply(outcome)
    \/ Tick

SpecPolls == Init /\ [][NextPolls]_vars

\* connect and check-status on PLCs with and without a number and a URL
NextProbe ==
    \/ \E config \in StatusConfigs : createPLC(config)
    \/ \E id \in Ids, updates \in ProbeUpdates : putPLC(id, updates)
    \/ \E id \in Ids : connectStart(id)
    \/ \E id \in Ids, outcome \in GatewayOutcomes : connectReply(id, outcome)
    \/ \E id \in Ids : checkStatusStart(id)
    \/ \E id \in Ids, outcome \in GatewayOutcomes : checkStatusReply(id, outcome)

SpecProbe == Init /\ [][NextProbe]_vars

\* the updates of SpecMem: columns, and the properties a status write-back
\* carries
MemUpdates ==
    {[plc_no |-> 4], [plc_status |-> "connected", opcua_status |-> "connected"],
     [status |-> "active", is_connected |-> TRUE]}

\* the calls of IStorage on MemStorage
NextMem ==
    \/ \E config \in Configs : memCreatePLC(config)
    \/ \E id \in Ids, updates \in MemUpdates : memUpdatePLC(id, updates)
    \/ \E id \in Ids : memDeletePLC(id)
    \/ \E id \in Ids : memGetPLCById(id)
    \/ memGetAllPLCs

SpecMem == Init /\ [][NextMem]_vars

\* the bodies of POST /api/plcs of SpecDisplay: a channel variable stored
\* under its own name, and a PLC without variables
DisplayConfigs ==
    [plc_name : {"Line2"}, plc_no : {4}, plc_ip : {"10.0.0.6"},
     opcua_url : {"opc.tcp://x"},
     address_mappings : {<<>>, << ConfigMapping("M20_BC", "M20_BC", "Valves", "channel") >>}]

\* uploads and creations, and the Dashboard showing what was stored
NextDisplay ==
    \/ \E rawConfig \in RawConfigs : createPLCFromRaw(rawConfig)
    \/ \E config \in DisplayConfigs : createPLC(config)
    \/ \E id \in Ids : display(id)

SpecDisplay == Init /\ [][NextDisplay]_vars

(***************************************************************************)
(* Properties.                                                             *)
(***************************************************************************)
\* the stored connection status reads connected / disconnected
StoredConnected(r) == r.plc_status = "connected" /\ r.opcua_status = "connected"

StoredDisconnected(r) == r.plc_status = "disconnected" /\ r.opcua_status = "disconnected"

\* a stored PLC already has the network address ip
AddressTaken(ip) == \E r \in plcs : r.plc_ip = ip

\* C1: in every reachable state no two stored PLC rows have the same
\* network address (plc_ip).
C1_UniqueAddress ==
    \A r1, r2 \in plcs : r1.plc_ip = r2.plc_ip => r1.id = r2.id

\* this step is a create on a network address that a stored PLC already has;
\* last' holds the configuration it was given
DuplicateCreateStep ==
    \/ /\ last'.op = "createPLC"
       /\ AddressTaken(last'.input.plc_ip)
       /\ createPLC(last'.input)
    \/ /\ last'.op = "createPLCFromRaw"
       /\ AddressTaken(last'.input.plc_ip)
       /\ createPLCFromRaw(last'.input)

\* C2: a createPLC or createPLCFromRaw submitted with a network address that
\* a stored PLC already has fails, and leaves table plcs and table variables
\* as they were.
C2_DuplicateCreateRejected ==
    [][ DuplicateCreateStep =>
          (last'.result = "throw" /\ plcs' = plcs /\ variables' = variables)
      ]_vars

\* a create was rejected for an address that a stored PLC with variable rows has
C2_Witness ==
    /\ last.op \in {"createPLC", "createPLCFromRaw"}
    /\ last.result = "throw"
    /\ AddressTaken(last.input.plc_ip)
    /\ variables # <<>>

\* C3: after a connect request for an existing PLC completes, the stored
\* connection status is connected if and only if the gateway call succeeded
\* and reported "connected"; after a gateway failure, a non-success response
\* or a timeout it is disconnected.
C3_ConnectStatus ==
    (last.op = "connect" /\ last.gateway # "none" /\ Found(last.id)) =>
        /\ StoredConnected(RowOf(last.id)) <=> (last.gateway = "ok_connected")
        /\ last.gateway # "ok_connected" => StoredDisconnected(RowOf(last.id))

\* C4: when the gateway is unreachable or times out, connect and check-status
\* never answer 5xx: check-status answers 200 and connect answers the updated
\* PLC.
C4_NoServerError ==
    (last.op \in {"connect", "check-status"} /\ last.gateway = "throw") =>
        /\ last.http < 500
        /\ last.op = "check-status" => last.http = 200

\* C5: when the gateway call of a connect or check-status throws, the PLC is
\* still written back: its last_checked is the time of the call and its stored
\* status no longer reads connected.
C5_WriteBackOnFailure ==
    (last.op \in {"connect", "check-status"} /\ last.gateway = "throw"
        /\ Found(last.id)) =>
        /\ RowOf(last.id).last_checked = last.at
        /\ RowOf(last.id).plc_status # "connected"
        /\ RowOf(last.id).opcua_status # "connected"

\* C6: a disconnect request for an existing PLC succeeds, calls no gateway,
\* and leaves the stored status disconnected whatever it was before.
C6_Disconnect ==
    (last.op = "disconnect" /\ last.result = "ok") =>
        /\ last.http = 200
        /\ last.gateway = "none"
        /\ Found(last.id)
        /\ StoredDisconnected(RowOf(last.id))

\* the mapping carries a non-empty metadata.bit_mappings object
HasBitMappings(m) == m.bit_mappings.present /\ m.bit_mappings.entries # <<>>

\* the mapping carries no metadata.bit_mappings
WithoutBitMappings(m) == ~m.bit_mappings.present

\* the mapping carries an empty metadata.bit_mappings object
HasEmptyBitMappings(m) == m.bit_mappings.present /\ m.bit_mappings.entries = <<>>

\* this step is createPLCFromRaw on a network address that no stored PLC has;
\* last' holds the rawConfig it was given
UploadStep ==
    /\ last'.op = "createPLCFromRaw"
    /\ ~AddressTaken(last'.input.plc_ip)
    /\ createPLCFromRaw(last'.input)

\* the last call was an upload that went through
Uploaded == last.op = "createPLCFromRaw" /\ last.result = "ok"

\* C7: for every raw mapping whose bit_mappings is a non-empty object with N
\* entries, createPLCFromRaw inserts exactly N variable rows for that mapping,
\* none of them under the parent mapping's own node name.
C7_BitMappedRows ==
    [][ UploadStep =>
          /\ variables' = variables \o Flatten(last'.inserted)
          /\ Len(last'.inserted) = Len(last'.input.address_mappings)
          /\ \A i \in DOMAIN last'.input.address_mappings :
               LET m == last'.input.address_mappings[i]
                   rows == last'.inserted[i]
               IN HasBitMappings(m) =>
                    /\ Len(rows) = Len(m.bit_mappings.entries)
                    /\ \A j \in DOMAIN rows : rows[j].node_name # m.opcua_reg_add
      ]_vars

\* an upload with a mapping of two bit entries went through and left rows
C7_Witness ==
    /\ Uploaded
    /\ \E i \in DOMAIN last.input.address_mappings :
         /\ HasBitMappings(last.input.address_mappings[i])
         /\ Len(last.input.address_mappings[i].bit_mappings.entries) = 2
         /\ Len(last.inserted[i]) = 2
    /\ Len(variables) >= 2

RECURSIVE BitEntryCount(_)
\* the sum of the bit_mappings entry counts of the bit-mapped mappings
BitEntryCount(ms) ==
    IF ms = <<>> THEN 0
    ELSE (IF HasBitMappings(Head(ms)) THEN Len(Head(ms).bit_mappings.entries) ELSE 0)
         + BitEntryCount(Tail(ms))

\* the number of mappings that have no bit mappings
NonBitCount(ms) == Cardinality({i \in DOMAIN ms : ~HasBitMappings(ms[i])})

\* C8: a successful upload inserts as many variable rows as there are
\* mappings without bit mappings, plus the sum of the bit_mappings entry
\* counts of the bit-mapped mappings.
C8_RowCount ==
    [][ UploadStep =>
          Len(variables') - Len(variables)
            = NonBitCount(last'.input.address_mappings)
              + BitEntryCount(last'.input.address_mappings)
      ]_vars

\* the data type the input gives, "string" when it gives none
DataTypeOrDefault(m) ==
    IF m.data_type = Undefined \/ m.data_type = "" THEN "string" ELSE m.data_type

\* C9: for every raw mapping without bit_mappings, createPLCFromRaw inserts
\* exactly one variable row, carrying the mapping's own node name and register
\* address and the mapping's data type, or "string" when the input has none.
C9_RegularRow ==
    [][ UploadStep =>
          /\ variables' = variables \o Flatten(last'.inserted)
          /\ Len(last'.inserted) = Len(last'.input.address_mappings)
          /\ \A i \in DOMAIN last'.input.address_mappings :
               LET m == last'.input.address_mappings[i]
                   rows == last'.inserted[i]
               IN WithoutBitMappings(m) =>
                    /\ Len(rows) = 1
                    /\ rows[1].node_name = m.opcua_reg_add
                    /\ rows[1].reg_address = m.plc_reg_add
                    /\ rows[1].data_type = DataTypeOrDefault(m)
      ]_vars

\* an upload with a mapping that has neither bit_mappings nor a data type
\* went through, and its row is stored with data type "string"
C9_Witness ==
    /\ Uploaded
    /\ \E i \in DOMAIN last.input.address_mappings :
         LET m == last.input.address_mappings[i]
         IN /\ WithoutBitMappings(m)
            /\ m.data_type = Undefined
            /\ \E k \in DOMAIN variables :
                 /\ variables[k].node_name = m.opcua_reg_add
                 /\ variables[k].data_type = "string"

\* C10: a raw mapping whose bit_mappings is present but empty yields exactly
\* one variable row, with the mapping's own node name and register address.
C10_EmptyBitMappings ==
    [][ UploadStep =>
          \A i \in DOMAIN last'.input.address_mappings :
             LET m == last'.input.address_mappings[i]
                 rows == last'.inserted[i]
             IN HasEmptyBitMappings(m) =>
                  /\ Len(rows) = 1
                  /\ rows[1].node_name = m.opcua_reg_add
                  /\ rows[1].reg_address = m.plc_reg_add
      ]_vars

\* the bit index left-padded to two digits
BitIndexNN(key) == IF Len(key) = 1 THEN "0" \o key ELSE key

\* the description of a bit entry, or the fallback when the entry has none
BitDescriptionOrFallback(m, e) ==
    IF e.description = Undefined
    THEN m.description \o " - Bit " \o BitIndexNN(e.key)
    ELSE e.description

\* C11: each variable row inserted for a bit-mapping entry has node name
\* parent node name + "_" + the bit index padded to two digits, the entry's
\* address as register address, the boolean data type, and as description
\* the entry's description or, when the entry has none, the fallback
\* "{parentDescription} - Bit {NN}".
C11_BitRowFields ==
    [][ UploadStep =>
          \A i \in DOMAIN last'.input.address_mappings :
             LET m == last'.input.address_mappings[i]
                 rows == last'.inserted[i]
             IN HasBitMappings(m) =>
                  /\ Len(rows) = Len(m.bit_mappings.entries)
                  /\ \A j \in DOMAIN rows :
                       LET e == m.bit_mappings.entries[j]
                       IN /\ rows[j].node_name
                               = m.opcua_reg_add \o "_" \o BitIndexNN(e.key)
                          /\ rows[j].reg_address = e.address
                          /\ rows[j].data_type = "bool"
                          /\ rows[j].description = BitDescriptionOrFallback(m, e)
      ]_vars

\* this step is a createPLCFromRaw one of whose variable inserts threw;
\* last' holds the rawConfig it was given
InsertFailedStep ==
    /\ last'.op = "createPLCFromRaw"
    /\ last'.result = "insert_failed"
    /\ \E k \in InsertPositions : createPLCFromRawInsertFails(last'.input, k)

\* C12: createPLCFromRaw is all-or-nothing: when a variable insert of the
\* call fails, neither the PLC row nor any variable row of the call remains
\* in the store.
C12_AllOrNothing ==
    [][ InsertFailedStep => (plcs' = plcs /\ variables' = variables) ]_vars

\* this step is a POST /api/plcs or an upload whose document was rejected
RejectedStep ==
    /\ last'.op \in {"postPLC", "upload"}
    /\ last'.result = "invalid"
    /\ \/ postPLCRejected
       \/ uploadRejected(last'.input.error)

\* C13: on the upload and POST /api/plcs paths validation completes before
\* the first persistence write: a document that fails validation is answered
\* 400 and both tables stay as they were.
C13_ValidateBeforeWrite ==
    [][ RejectedStep =>
          (last'.http = 400 /\ plcs' = plcs /\ variables' = variables)
      ]_vars

\* a malformed upload was answered 400 while the store held a PLC and rows
C13_Witness ==
    /\ last.op = "upload"
    /\ last.input.error = "SyntaxError"
    /\ last.http = 400
    /\ plcs # {}
    /\ variables # <<>>

\* this step is storage.deletePLC(last'.id), reached from either step of the
\* DELETE route
DeleteStep ==
    /\ last'.op = "deletePLC"
    /\ deletePLC(last'.id, last'.gateway)

\* C14: deletePLC(id) on a stored PLC with number k removes the PLC's row
\* and every variable row whose plc_no is k, however many PLCs share k, keeps
\* every other row, and returns true; on an unknown id it returns false and
\* changes nothing.
C14_DeleteByNumber ==
    [][ DeleteStep =>
          IF \E r \in plcs : r.id = last'.id
          THEN LET k == (CHOOSE r \in plcs : r.id = last'.id).plc_no
               IN k # NullNo =>
                    /\ last'.result = "ok"
                    /\ plcs' = {r \in plcs : r.id # last'.id}
                    /\ \A i \in DOMAIN variables' : variables'[i].plc_no # k
                    /\ variables' = SelectSeq(variables, LAMBDA v : v.plc_no # k)
          ELSE /\ last'.result = "not_found"
               /\ plcs' = plcs
               /\ variables' = variables
      ]_vars

\* a PLC with a number was deleted while another PLC created with the same
\* number stays: the rows of both are gone
C14_Witness ==
    /\ last.op = "deletePLC"
    /\ last.result = "ok"
    /\ last.gateway # "none"
    /\ \E r \in plcs : r.plc_no = 3 /\ r.id # last.id
    /\ \A i \in DOMAIN variables : variables[i].plc_no # 3

\* this step is GET /api/plcs; last' holds includeMappings and the answer
ListStep ==
    /\ last'.op = "getAllPLCs"
    /\ \E param \in IncludeMappingsParams :
         /\ last'.input.includeMappings = (param = "true")
         /\ listPLCs(param)

\* the number a PLC's variables are looked up under: its own, 1 when unset
NumberOrOne(r) == IF r.plc_no = NullNo THEN 1 ELSE r.plc_no

\* the mapping list is, in table order, the variable rows of number n
IsJoinOf(mappings, n) ==
    LET rows == SelectSeq(variables, LAMBDA v : v.plc_no = n)
    IN /\ Len(mappings) = Len(rows)
       /\ \A j \in DOMAIN rows :
            /\ mappings[j].node_name = rows[j].node_name
            /\ mappings[j].node_id = rows[j].reg_address
            /\ mappings[j].data_type = rows[j].data_type

PutStep ==
    /\ last'.op = "updatePLC"
    /\ putPLC(last'.id, last'.input)

\* the columns of a row of table plcs
PLCColumns ==
    {"id", "plc_name", "plc_no", "plc_ip", "opcua_url", "plc_status",
     "opcua_status", "last_checked", "created_at"}

\* C16: updatePLC(id, updates) changes only the fields that updates carries:
\* every other field of the PLC, every other PLC and table variables stay as
\* they were; on an unknown id it reports not-found and creates no row.
C16_UpdateFrame ==
    [][ PutStep =>
          /\ variables' = variables
          /\ {r.id : r \in plcs'} = {r.id : r \in plcs}
          /\ Cardinality(plcs') = Cardinality(plcs)
          /\ \A r \in plcs :
               IF r.id = last'.id
               THEN \E u \in plcs' :
                      /\ u.id = r.id
                      /\ \A col \in PLCColumns \ DOMAIN last'.input : u[col] = r[col]
               ELSE r \in plcs'
          /\ (\A r \in plcs : r.id # last'.id) =>
                (last'.result = "not_found" /\ plcs' = plcs)
      ]_vars

\* an update of the number alone went through: the PLC has the new number,
\* its address is the one it was created with, and its variable row is still
\* stored under the old number
C16_Witness ==
    /\ last.op = "updatePLC"
    /\ last.result = "ok"
    /\ DOMAIN last.input = {"plc_no"}
    /\ \E r \in plcs : r.id = last.id /\ r.plc_no = 4 /\ r.plc_ip = "10.0.0.6"
    /\ \E i \in DOMAIN variables : variables[i].plc_no = 3

\* this step is a createPLC or a createPLCFromRaw on a network address that
\* no stored PLC has; last' holds the configuration it was given
CreateStep ==
    \/ /\ last'.op = "createPLC"
       /\ ~AddressTaken(last'.input.plc_ip)
       /\ createPLC(last'.input)
    \/ UploadStep

\* the step stored a new PLC whose plc_status and opcua_status are
\* disconnected, and appended the rows the call inserted
CreatedDisconnected ==
    /\ \E r \in plcs' \ plcs :
         /\ r.id = last'.id
         /\ r.plc_status = "disconnected"
         /\ r.opcua_status = "disconnected"
    /\ variables' = variables \o Flatten(last'.inserted)

\* C17: every PLC created by createPLC or createPLCFromRaw starts with
\* plc_status and opcua_status disconnected, and each variable row the call
\* writes carries the PLC's numeric index as plc_no.
C17_CreatedKeyedByIndex ==
    [][ CreateStep =>
          /\ CreatedDisconnected
          /\ \A i \in DOMAIN Flatten(last'.inserted) :
               Flatten(last'.inserted)[i].plc_no = last'.input.plc_no
      ]_vars

\* C17, amended: every PLC created by createPLC or createPLCFromRaw starts
\* with plc_status and opcua_status disconnected, and each variable row the
\* call writes carries as plc_no the PLC's numeric index, or 1 when the PLC
\* has no index (unset or 0).
C17_CreatedKeyedByIndexOrOne ==
    [][ CreateStep =>
          /\ CreatedDisconnected
          /\ \A i \in DOMAIN Flatten(last'.inserted) :
               Flatten(last'.inserted)[i].plc_no
                 = IF last'.input.plc_no \in {NullNo, 0} THEN 1
                   ELSE last'.input.plc_no
      ]_vars

\* a PLC without a numeric index was created disconnected and its variable
\* row is stored under number 1
C17_Witness ==
    /\ last.op = "createPLC"
    /\ last.result = "ok"
    /\ last.input.plc_no = NullNo
    /\ \E r \in plcs : r.id = last.id /\ r.plc_no = NullNo /\ StoredDisconnected(r)
    /\ Len(Flatten(last.inserted)) = 1
    /\ \E i \in DOMAIN variables : variables[i].plc_no = 1

\* C18: in the bulk status result every local PLC whose number does not occur
\* in the gateway's answer (the gateway being unreachable or answering
\* non-2xx included) is reported with is_connected false, status "error",
\* plc_status and opcua_status "disconnected" and the message "Not connected
\* to backend", and the request answers 200.
C18_NotInGatewayAnswer ==
    last.op = "all-status" =>
        /\ last.http = 200
        /\ \A p \in last.input.plcs :
             (\A e \in last.input.reports : e.plc_no # p.plc_no) =>
                \E report \in last.response :
                   /\ report.plc_id = p.id
                   /\ report.is_connected = FALSE
                   /\ report.status = "error"
                   /\ report.plc_status = "disconnected"
                   /\ report.opcua_status = "disconnected"
                   /\ report.message = "Not connected to backend"

\* this step is the bulk status handler from the gateway's reply on; last'
\* holds the gateway's entries
AllStatusReplyStep ==
    /\ last'.op = "all-status"
    /\ \E outcome \in AllStatusOutcomes : allStatusReply(outcome)

\* C19: during a bulk status request every local PLC whose number appears in
\* the gateway's answer has its record updated with the reported status, and
\* the record of a PLC whose number does not appear stays as it was.
C19_BulkWriteBack ==
    [][ AllStatusReplyStep =>
          \A r \in plcs :
             IF \E e \in last'.input.reports : e.plc_no = r.plc_no
             THEN LET e == CHOOSE e \in last'.input.reports : e.plc_no = r.plc_no
                  IN \E u \in plcs' :
                        /\ u.id = r.id
                        /\ StoredConnected(u) <=> e.is_connected
             ELSE r \in plcs'
      ]_vars

\* this step is the DELETE route answering, at once or after the gateway's
\* reply; last' holds the id and what the fetch did
DeleteRouteStep ==
    /\ last'.op = "deletePLC"
    /\ inflight' \subseteq inflight
    /\ \/ deleteStart(last'.id)
       \/ \E outcome \in DeleteOutcomes : deleteReply(last'.id, outcome)

PostPLCStep ==
    \/ /\ last'.op = "postPLC"
       /\ postPLCRejected
    \/ /\ last'.op = "createPLC"
       /\ createPLC(last'.input)

\* C21: POST /api/plcs answers 201 with the created PLC on success, 400 on a
\* schema violation, and 500 carrying the conflict message when the address
\* is already registered.
C21_PostPLCAnswers ==
    [][ PostPLCStep =>
          IF last'.op = "postPLC" THEN last'.http = 400
          ELSE IF AddressTaken(last'.input.plc_ip)
          THEN /\ last'.http = 500
               /\ last'.response.error
                    = "PLC with IP " \o last'.input.plc_ip
                      \o " is already registered. To change it, delete the existing PLC and reupload the file."
          ELSE /\ last'.http = 201
               /\ last'.response.id = last'.id
               /\ last'.response.plc_ip = last'.input.plc_ip
               /\ \E r \in plcs' \ plcs : r.id = last'.response.id
      ]_vars

\* the stored PLC has no number or no gateway URL
NumberOrUrlUnset(r) ==
    \/ r.plc_no \in {NullNo, 0}
    \/ r.opcua_url \in {Undefined, ""}

\* C22: a connect or check-status request for a PLC whose plc_no or gateway
\* URL is unset is answered 400, calls no gateway and leaves the PLC's record
\* as it was.
C22_ProbeNeedsNumberAndUrl ==
    [][ \A id \in Ids, kind \in {"connect", "check-status"} :
          (/\ probeStart(kind, id)
           /\ \E r \in plcs : r.id = id /\ NumberOrUrlUnset(r))
          => /\ last'.op = kind
             /\ last'.id = id
             /\ last'.http = 400
             /\ last'.gateway = "none"
             /\ inflight' = inflight
             /\ plcs' = plcs
      ]_vars

\* a check-status of a PLC that has a number but an empty gateway URL was
\* answered 400
C22_Witness ==
    /\ last.op = "check-status"
    /\ last.http = 400
    /\ last.gateway = "none"
    /\ \E r \in plcs : r.id = last.id /\ r.plc_no = 3 /\ r.opcua_url = ""

\* what tells a stored PLC from another, in either implementation
PLCFields(p) ==
    [id |-> p.id, plc_name |-> p.plc_name, plc_no |-> p.plc_no,
     plc_ip |-> p.plc_ip, opcua_url |-> p.opcua_url,
     plc_status |-> p.plc_status, opcua_status |-> p.opcua_status]

\* this step is a call of IStorage on MemStorage; last' holds the call
MemCallStep ==
    /\ last'.op \in {"createPLC", "updatePLC", "deletePLC", "getPLCById", "getAllPLCs"}
    /\ \/ last'.op = "createPLC" /\ memCreatePLC(last'.input)
       \/ last'.op = "updatePLC" /\ memUpdatePLC(last'.id, last'.input)
       \/ last'.op = "deletePLC" /\ memDeletePLC(last'.id)
       \/ last'.op = "getPLCById" /\ memGetPLCById(last'.id)
       \/ last'.op = "getAllPLCs" /\ memGetAllPLCs

\* C23: MemStorage and SqlStorage are interchangeable behind IStorage: from
\* the same stored PLCs, every call gets from MemStorage the outcome
\* (success, failure, not-found) it gets from SqlStorage, and both hold the
\* same PLCs afterwards.
C23_Interchangeable ==
    [][ MemCallStep =>
          /\ last'.result = SqlOutcome(last'.op, last'.id, last'.input)
          /\ {PLCFields(p) : p \in plcs'}
               = {PLCFields(r) : r \in SqlPLCsAfter(last'.op, last'.id, last'.input)}
      ]_vars

\* the row r after storage.updatePLC wrote the status update u to it
Written(r, u) == SetColumns(r, UpdateData(u))

\* the status update of the bulk handler for entry e, made at time t
WriteBackAt(e, t) == [AllStatusUpdate(e) EXCEPT !.last_checked = t]

\* C24: status write-backs are idempotent full-field overwrites: the record
\* stored by the bulk poll that resolves last carries every field of that
\* poll's write-back, writing the same write-back a second time leaves the
\* record as the first write left it, and the record is the same whatever
\* write-back an earlier poll made before it.
C24_IdempotentLastWins ==
    [][ AllStatusReplyStep =>
          \A r \in plcs : \A e \in last'.input.reports :
             (\E p \in last'.input.plcs : p.id = r.id /\ p.plc_no = e.plc_no) =>
                \E u \in plcs' :
                   /\ u.id = r.id
                   /\ u.last_checked = now
                   /\ StoredConnected(u) <=> e.is_connected
                   /\ Written(u, AllStatusUpdate(e)) = u
                   /\ \A e0 \in UNION StatusReports : \A t0 \in 0..now :
                        Written(Written(r, WriteBackAt(e0, t0)), AllStatusUpdate(e)) = u
      ]_vars

\* this step is the connect handler of a PLC resuming at the gateway's reply
\* after a disconnect of the same PLC ran while that reply was awaited
ConnectAfterDisconnectStep ==
    /\ last.op = "disconnect"
    /\ last.result = "ok"
    /\ [kind |-> "connect", id |-> last.id] \in last.input.pending
    /\ last'.op = "connect"
    /\ last'.id = last.id
    /\ connectReply(last.id, last'.gateway)

\* C25: a connect whose gateway call is pending while a disconnect of the same
\* PLC is processed is not cancelled: when the reply arrives the handler
\* writes back, and the state then stored is the connect's result (connected
\* exactly when the gateway connected, checked at the reply), not the
\* disconnect's.
C25_ConnectNotCancelled ==
    [][ ConnectAfterDisconnectStep =>
          /\ [kind |-> "connect", id |-> last.id] \notin inflight'
          /\ \E u \in plcs' :
                /\ u.id = last.id
                /\ u.last_checked = now
                /\ StoredConnected(u) <=> (last'.gateway = "ok_connected")
      ]_vars

\* the flat list's variable is a bit of a channel: a bool named <base>_BC_<nn>
IsBitVariable(m) ==
    /\ m.data_type = "bool"
    /\ Len(m.node_name) > 6
    /\ SubSeq(m.node_name, Len(m.node_name) - 5, Len(m.node_name) - 3) = "_BC"

\* the bit positions of the rows of vs are ascending
Ascending(vs) ==
    \A i, j \in DOMAIN vs : i < j => vs[i].bitPosition < vs[j].bitPosition

\* C26: the reconstruction shown for a flat list of variables is a function
\* of that list alone (made again from the same list it is the same), the
\* children of every parent are in ascending bit-position order, and they
\* reproduce the original bits in their order: the children are the bit
\* variables of the flat list, each under a parent.
C26_Reconstruction ==
    (last.op = "display") =>
        LET shown == last.response.variables
            flat == last.input.mappings
            children == SelectSeq(shown, LAMBDA v : "parentId" \in DOMAIN v)
        IN /\ (Found(last.id) /\ getPLCById(last.id).address_mappings = flat)
                 => Reconstruction(getPLCById(last.id)) = shown
           /\ \A i \in DOMAIN shown :
                 Ascending(getChildVariables(shown, shown[i].id))
           /\ \A i \in DOMAIN children :
                 /\ \E j \in DOMAIN shown : shown[j].id = children[i].parentId
                 /\ \E k \in DOMAIN flat : flat[k].node_name = children[i].opcua_reg_add
           /\ SelectSeq([k \in DOMAIN flat |-> flat[k].node_name],
                        LAMBDA n : \E k \in DOMAIN flat :
                                      flat[k].node_name = n /\ IsBitVariable(flat[k]))
              = [i \in DOMAIN children |-> children[i].opcua_reg_add]

\* C27: the bulk status result holds exactly one report for every locally
\* stored PLC, none missing and none reported twice, also when local PLCs
\* share a number or have none.
C27_OneReportPerPLC ==
    last.op = "all-status" =>
        /\ \A p \in last.input.plcs :
             Cardinality({report \in last.response : report.plc_id = p.id}) = 1
        /\ \A report \in last.response :
             \E p \in last.input.plcs : p.id = report.plc_id

\* C28: after deletePLC returned true for a PLC no variable row of that PLC's
\* create call is left in table variables, also for a PLC created without a
\* number, whose rows are stored under number 1.
C28_NoRowsLeft ==
    [][ (DeleteStep /\ last'.result = "ok") =>
          \A r \in plcs : r.id = last'.id =>
             \A i \in DOMAIN variables' : variables'[i].plc_no # OrOne(r.plc_no)
      ]_vars

\* the node names, addresses and data types of a mapping list
MappingKeys(mappings) ==
    [i \in DOMAIN mappings |->
       <<mappings[i].node_name, mappings[i].node_id, mappings[i].data_type>>]

\* C29: the PLC object a successful createPLC or createPLCFromRaw returned
\* carries the same mapping list (node names, addresses, data types) as
\* getPLCById gives for its id right afterwards, when no other PLC has its
\* number.
C29_ReturnedMappings ==
    (/\ last.op \in {"createPLC", "createPLCFromRaw"}
     /\ last.result = "ok"
     /\ Found(last.id)
     /\ \A r \in plcs : r.id # last.id => OrOne(r.plc_no) # OrOne(RowOf(last.id).plc_no))
    => MappingKeys(last.response.address_mappings)
         = MappingKeys(getPLCById(last.id).address_mappings)

\* no other stored PLC has the number (1 when unset) of the stored PLC id
NumberUnshared(id) ==
    \A r \in plcs : r.id # id => OrOne(r.plc_no) # OrOne(RowOf(id).plc_no)

\* what a read finds is whole: from the first state in which a read can find
\* a created PLC its mapping list holds all the variable rows of its create
\* call, and a listing with mappings shows every stored PLC with the rows of
\* its number
ReadsWhole ==
    /\ (/\ last.op \in {"createPLC", "createPLCFromRaw"}
        /\ last.result = "ok"
        /\ Found(last.id)
        /\ NumberUnshared(last.id))
       => LET found == VariablesOf(RowOf(last.id).plc_no)
              written == Flatten(last.inserted)
          IN \A k \in DOMAIN written : \E j \in DOMAIN found : found[j] = written[k]
    /\ (last.op = "getAllPLCs" /\ last.input.includeMappings)
       => \A p \in last.response.plcs :
             \A r \in plcs : r.id = p.id =>
                Len(p.address_mappings) = Len(VariablesOf(r.plc_no))

\* C30: a read never observes a PLC in a half-written state (it finds the
\* PLC with all variable rows of its create call or not at all), and,
\* deletePLC removing the variable rows before the PLC row, the PLC row is
\* never gone while variable rows of the PLC remain.
C30_NoHalfWritten ==
    [][ /\ ReadsWhole'
        /\ (DeleteStep /\ last'.result = "ok") =>
              \A r \in plcs :
                 (r.id = last'.id /\ NumberUnshared(r.id)) =>
                    \A i \in DOMAIN variables' :
                       variables'[i].plc_no # OrOne(r.plc_no)
      ]_vars

====
